---- MODULE Spec2Model ----
(***************************************************************************)
(* Model of the chat gateway of Backend/server.js: the POST /api/ask       *)
(* handler, its in-memory cache aiCache and the retrying upstream wrapper  *)
(* cohereChatRequest.  Each action is one synchronous segment of the       *)
(* handler, from one await to the next (Node runs a segment to completion  *)
(* before any other callback).  Time is the value of Date.now(), in ms.    *)
(***************************************************************************)
EXTENDS Integers, Sequences, FiniteSets, TLC

\* ------------------------------------------------------------------ bounds
MaxRequests == 2        \* requests received by the process in one run

\* ------------------------------------------------- constants of the program
maxRetries == 3
timeoutMs == 10000
baseDelay == 300
jitterRange == 150
ttlMs == 30000
maxReplyLen == 1000
serverTextMax == 200    \* text.substring(0, 200) in the 5xx error
rawTextMax == 500       \* raw.substring(0, 500) in the non-JSON error
maxDetailLen == 300     \* .slice(0, 300) of the 502's detail

Ids == 1..MaxRequests

RECURSIVE Pow2(_)
Pow2(n) == IF n = 0 THEN 1 ELSE 2 * Pow2(n - 1)

\* ------------------------------------------------------------ JS values
\* A request body's "message" as JavaScript sees it: its typeof and, for a
\* string, its characters.
Undefined == [type |-> "undefined", chars |-> <<>>]
Num(cs) == [type |-> "number", chars |-> cs]
Str(cs) == [type |-> "string", chars |-> cs]

Whitespace == {" ", "\t", "\n"}
UpperCase == <<"H", "I">>
LowerCase == <<"h", "i">>

\* String.prototype.toLowerCase on one character
toLowerChar(c) ==
    IF \E i \in 1..Len(UpperCase) : UpperCase[i] = c
    THEN LowerCase[CHOOSE i \in 1..Len(UpperCase) : UpperCase[i] = c]
    ELSE c

toLowerCase(cs) == [i \in 1..Len(cs) |-> toLowerChar(cs[i])]

\* String.prototype.trim: drop the leading and the trailing whitespace
RECURSIVE trimStart(_)
trimStart(cs) ==
    IF cs # <<>> /\ Head(cs) \in Whitespace THEN trimStart(Tail(cs)) ELSE cs

RECURSIVE trimEnd(_)
trimEnd(cs) ==
    IF cs # <<>> /\ cs[Len(cs)] \in Whitespace
    THEN trimEnd(SubSeq(cs, 1, Len(cs) - 1))
    ELSE cs

trim(cs) == trimEnd(trimStart(cs))

\* (mutant) the key is trimmed but keeps its case
normalizeKeyCased(m) == trim(m.chars)

\* const key = message.trim().toLowerCase()
normalizeKey(m) == toLowerCase(trim(m.chars))

\* (mutant) only undefined counts as absent
falsyUndefinedOnly(m) == m.type = "undefined"

\* !message : undefined, the number 0 and the empty string are falsy
falsy(m) ==
    \/ m.type = "undefined"
    \/ m.type = "number" /\ m.chars = <<"0">>
    \/ m.type = "string" /\ m.chars = <<>>

\* (mutant) only the type is checked
invalidMessageTypeOnly(m) == m.type # "string"

\* if (!message || typeof message !== "string") -> 400
invalidMessage(m) == falsy(m) \/ m.type # "string"

\* The messages clients send: none, a number, "", "  Hi ", "hi" and " ".
Messages ==
    { Undefined, Num(<<"5">>), Str(<<>>),
      Str(<<" ", "H", "i", " ">>), Str(<<"h", "i">>), Str(<<" ">>) }

\* process.env.COHERE_API_KEY : unset, empty, or a key
ApiKeys == { Undefined, Str(<<>>), Str(<<"k">>) }

\* ------------------------------------------------------ upstream responses
\* The status and the content-type header of the responses the upstream sends,
\* and the number of characters of the body as resp.text() returns it.
Responses ==
    { [status |-> 200, ct |-> "application/json", text |-> 60],
      [status |-> 200, ct |-> "text/html", text |-> 1200],
      [status |-> 429, ct |-> "application/json", text |-> 1200],
      [status |-> 500, ct |-> "text/html", text |-> 1200] }

\* resp.status >= 500 && resp.status < 600
isServerError(status) == status >= 500 /\ status < 600

\* resp.status >= 400 && resp.status < 500
isClientError(status) == status >= 400 /\ status < 500

\* ct.includes("application/json")
isJsonContentType(ct) == ct \in {"application/json"}

Min(a, b) == IF a < b THEN a ELSE b

\* The Error objects the wrapper can throw or see thrown: what the message
\* begins with, the status it quotes, and len, the number of characters of
\* err.message (n: the number of characters of the response's body).
NoError == [name |-> "none", status |-> 0, len |-> 0]

\* `Server error ${resp.status}: ${text.substring(0, 200)}`
ServerError(status, n) ==
    [name |-> "Server error", status |-> status, len |-> 18 + Min(n, serverTextMax)]

\* `Cohere ${resp.status}: ${txt}` : the throw of line 89 is caught by the
\* catch of line 90, which throws the message with the whole body.
CohereError(status, n) == [name |-> "Cohere", status |-> status, len |-> 12 + n]

\* `Non-JSON response from Cohere (status ${resp.status}): ${raw.substring(0, 500)}`
NonJsonError(status, n) ==
    [name |-> "Non-JSON response", status |-> status, len |-> 44 + Min(n, rawTextMax)]

\* "This operation was aborted", "fetch failed", and a SyntaxError of resp.json()
AbortError == [name |-> "AbortError", status |-> 0, len |-> 26]
NetworkError == [name |-> "fetch failed", status |-> 0, len |-> 12]
BodyError == [name |-> "body unreadable", status |-> 0, len |-> 40]

\* The kind of failure an error stands for: a 5xx answer, no answer (timeout,
\* connection error), or an answer that is no use (4xx, not JSON, unreadable).
kindOf(err) ==
    IF err.name = "Server error" THEN "5xx"
    ELSE IF err.name \in {"AbortError", "fetch failed"} THEN "transient"
    ELSE "fatal"

\* What the wrapper throws once the body of a response has been consumed,
\* NoError when it returns the parsed JSON.  parsed: resp.json() resolved.
thrownFor(r, parsed) ==
    IF isServerError(r.status) THEN ServerError(r.status, r.text)
    ELSE IF isClientError(r.status) THEN CohereError(r.status, r.text)
    ELSE IF ~isJsonContentType(r.ct) THEN NonJsonError(r.status, r.text)
    ELSE IF ~parsed THEN BodyError
    ELSE NoError

\* (mutant) the loop gives up one attempt early
isLastEarly(attempt) == attempt = maxRetries - 1

\* const isLast = attempt === maxRetries
isLast(attempt) == attempt = maxRetries

\* 300 * Math.pow(2, attempt) + Math.floor(Math.random() * 150)
Jitters == {0, jitterRange - 1}

\* (mutant) the delay grows by a step, not by doubling
backoffDelayLinear(attempt, jitter) == baseDelay * (attempt + 1) + jitter

backoffDelay(attempt, jitter) == baseDelay * Pow2(attempt) + jitter

\* ------------------------------------------------------- reply extraction
\* A text value: what it says and how many characters of it there are.
\* NoValue is undefined; EmptyText is "".  Both are falsy under ||.
NoValue == [text |-> "", len |-> -1]
EmptyText == [text |-> "", len |-> 0]
Text(t, n) == [text |-> t, len |-> n]
truthy(v) == v.len > 0

\* v.slice(0, n)
slice(v, n) == [text |-> v.text, len |-> Min(v.len, n)]

\* A parsed response: the values at the seven paths the handler looks at and
\* the serialization of the whole value.  Bodies holds
\* {"message":{"content":""},"generations":[{"text":"foo"}]} and an object
\* with none of the paths, 1200 characters long when serialized.
NoFields ==
    [ messageContent |-> NoValue, output0Content |-> NoValue,
      output0Text |-> NoValue, generations0Text |-> NoValue,
      choices0MessageContent |-> NoValue, resultContent |-> NoValue,
      text |-> NoValue ]

Json(kind, fields, ser) == [kind |-> kind, fields |-> fields, ser |-> ser]

Bodies ==
    { Json("object", [NoFields EXCEPT !.messageContent = EmptyText,
                                      !.generations0Text = Text("foo", 3)],
           Text("{message,generations}", 60)),
      Json("object", NoFields, Text("{other}", 1200)) }

\* No value returned yet.
NoJson == Json("undefined", NoFields, NoValue)

\* More bodies resp.json() can return: {"generations":[{"text":"foo"}]}; objects
\* with two of the paths each; {} ; null (an "object" to typeof); and a JSON
\* string of 1200 characters, a number and "" (String(json) is the value itself).
MoreBodies ==
    { Json("object", [NoFields EXCEPT !.generations0Text = Text("foo", 3)],
           Text("{generations}", 30)),
      Json("object", [NoFields EXCEPT !.messageContent = Text("m", 1),
                                      !.output0Content = Text("oc", 2)],
           Text("{message,output}", 50)),
      Json("object", [NoFields EXCEPT !.output0Content = Text("oc", 2),
                                      !.output0Text = Text("ot", 2)],
           Text("{output}", 40)),
      Json("object", [NoFields EXCEPT !.output0Text = Text("ot", 2),
                                      !.generations0Text = Text("foo", 3)],
           Text("{output,generations}", 50)),
      Json("object", [NoFields EXCEPT !.generations0Text = Text("long", 1500),
                                      !.choices0MessageContent = Text("c", 1)],
           Text("{generations,choices}", 1550)),
      Json("object", [NoFields EXCEPT !.choices0MessageContent = Text("c", 1),
                                      !.resultContent = Text("r", 1)],
           Text("{choices,result}", 50)),
      Json("object", [NoFields EXCEPT !.resultContent = Text("r", 1),
                                      !.text = Text("t", 1)],
           Text("{result,text}", 40)),
      Json("object", [NoFields EXCEPT !.text = Text("t", 1)], Text("{text}", 12)),
      Json("object", NoFields, Text("{}", 2)),
      Json("object", NoFields, Text("null", 4)),
      Json("string", NoFields, Text("aaa...", 1200)),
      Json("number", NoFields, Text("7", 1)),
      Json("string", NoFields, EmptyText) }

\* a || b
Or(a, b) == IF truthy(a) THEN a ELSE b

extractReply(json) ==
    Or(json.fields.messageContent,
    Or(json.fields.output0Content,
    Or(json.fields.output0Text,
    Or(json.fields.generations0Text,
    Or(json.fields.choices0MessageContent,
    Or(json.fields.resultContent,
    Or(json.fields.text,
       IF json.kind = "object" THEN slice(json.ser, maxReplyLen)
                               ELSE json.ser)))))))

\* --------------------------------------------------------- HTTP responses
NoRes == [code |-> 0, reply |-> NoValue, error |-> "", detail |-> NoError, at |-> 0]

BadRequest(t) ==
    [ code |-> 400, reply |-> NoValue,
      error |-> "Missing or invalid 'message' in request body",
      detail |-> NoError, at |-> t ]

Misconfigured(t) ==
    [ code |-> 500, reply |-> NoValue,
      error |-> "AI key not configured on server", detail |-> NoError, at |-> t ]

\* (mutant) the detail carries the whole message
BadGatewayWhole(err, t) ==
    [ code |-> 502, reply |-> NoValue,
      error |-> "AI service temporarily unavailable. Please try again in a few seconds.",
      detail |-> err, at |-> t ]

\* detail: (err.message || "").slice(0, 300)
BadGateway(err, t) ==
    [ code |-> 502, reply |-> NoValue,
      error |-> "AI service temporarily unavailable. Please try again in a few seconds.",
      detail |-> [err EXCEPT !.len = Min(@, maxDetailLen)], at |-> t ]

Ok(reply, t) ==
    [ code |-> 200, reply |-> reply, error |-> "", detail |-> NoError, at |-> t ]

\* ------------------------------------------------------------------ state
VARIABLES
    now,        \* Date.now()
    apiKey,     \* process.env.COHERE_API_KEY
    returned,   \* const json: what cohereChatRequest returned to the handler
    aiCache,    \* the Map: normalized key -> [reply, expires]
    pc,         \* where each request's handler is suspended
    message,    \* req.body.message of each request
    attempt,    \* the loop variable of cohereChatRequest
    timer,      \* the instant the request's armed setTimeout is due, 0: none armed
    resp,       \* the Response whose body is being consumed
    delay,      \* the backoff delay of the sleep in progress
    res,        \* the HTTP response sent to the client
    calls,      \* history: fetch calls issued for the request
    lastErr,    \* history: the error the latest failed attempt ended with
    kinds,      \* history: the kinds of failure the request's attempts ended in
    slept,      \* history: the sum of the backoff delays slept
    startedAt,  \* history: when the request arrived
    attemptAt,  \* history: when the attempt in flight was started
    outage      \* the request the upstream's faults hit in this run, 0: none yet

vars ==
    << now, apiKey, returned, aiCache, pc, message, attempt, timer, resp, delay, res,
       calls, lastErr, kinds, slept, startedAt, attemptAt, outage >>

NoResp == [status |-> 0, ct |-> "", text |-> 0]

Init ==
    /\ now = 0
    /\ apiKey \in ApiKeys
    /\ returned = [id \in Ids |-> NoJson]
    /\ aiCache = << >>
    /\ pc = [id \in Ids |-> "idle"]
    /\ message = [id \in Ids |-> Undefined]
    /\ attempt = [id \in Ids |-> 0]
    /\ timer = [id \in Ids |-> 0]
    /\ resp = [id \in Ids |-> NoResp]
    /\ delay = [id \in Ids |-> 0]
    /\ res = [id \in Ids |-> NoRes]
    /\ calls = [id \in Ids |-> 0]
    /\ lastErr = [id \in Ids |-> NoError]
    /\ kinds = [id \in Ids |-> {}]
    /\ slept = [id \in Ids |-> 0]
    /\ startedAt = [id \in Ids |-> 0]
    /\ attemptAt = [id \in Ids |-> 0]
    /\ outage = 0

\* aiCache.get(key) is an entry
cached(key) == key \in DOMAIN aiCache

\* (mutant) the cache is never trusted
cacheHitNever(key, t) == FALSE

\* (mutant) the comparison turned round
cacheHitReversed(key, t) == cached(key) /\ aiCache[key].expires < t

\* (mutant) an entry trusted in the instant it expires
cacheHitInclusive(key, t) == cached(key) /\ aiCache[key].expires >= t

\* cached && cached.expires > Date.now()
cacheHit(key, t) == cached(key) /\ aiCache[key].expires > t

\* (mutant) the entry expires as it is written
cacheSetNoTtl(key, reply, t) ==
    [ k \in DOMAIN aiCache \cup {key} |->
        IF k = key THEN [reply |-> reply, expires |-> t] ELSE aiCache[k] ]

\* (mutant) the first writer wins: an entry is never overwritten
cacheSetIfAbsent(key, reply, t) ==
    [ k \in DOMAIN aiCache \cup {key} |->
        IF k \in DOMAIN aiCache THEN aiCache[k]
        ELSE [reply |-> reply, expires |-> t + ttlMs] ]

\* (mutant) the entry lives one millisecond longer
cacheSetLong(key, reply, t) ==
    [ k \in DOMAIN aiCache \cup {key} |->
        IF k = key THEN [reply |-> reply, expires |-> t + ttlMs + 1] ELSE aiCache[k] ]

\* aiCache.set(key, { reply, expires: Date.now() + 30_000 })
cacheSet(key, reply, t) ==
    [ k \in DOMAIN aiCache \cup {key} |->
        IF k = key THEN [reply |-> reply, expires |-> t + ttlMs] ELSE aiCache[k] ]

\* (mutant) two calls are sent at once, the faster to be used
StartAttemptSpeculative(id, n) ==
    /\ pc' = [pc EXCEPT ![id] = "fetch"]
    /\ attempt' = [attempt EXCEPT ![id] = n]
    /\ timer' = [timer EXCEPT ![id] = now + timeoutMs]
    /\ attemptAt' = [attemptAt EXCEPT ![id] = now]
    /\ calls' = [calls EXCEPT ![id] = @ + 2]
    /\ delay' = [delay EXCEPT ![id] = 0]

\* One iteration of the for loop up to "await fetch": a new AbortController,
\* the abort timer armed, the request sent.
StartAttempt(id, n) ==
    /\ pc' = [pc EXCEPT ![id] = "fetch"]
    /\ attempt' = [attempt EXCEPT ![id] = n]
    /\ timer' = [timer EXCEPT ![id] = now + timeoutMs]
    /\ attemptAt' = [attemptAt EXCEPT ![id] = now]
    /\ calls' = [calls EXCEPT ![id] = @ + 1]
    /\ delay' = [delay EXCEPT ![id] = 0]

\* res.status(..).json(..): the handler returns.
Respond(id, r) ==
    /\ pc' = [pc EXCEPT ![id] = "done"]
    /\ res' = [res EXCEPT ![id] = r]

\* The instants at which requests arrive: when the process starts, and in the
\* last millisecond of a cache entry or just as it expires.
Arrivals ==
    {0} \cup { aiCache[k].expires : k \in DOMAIN aiCache }
        \cup { aiCache[k].expires - 1 : k \in DOMAIN aiCache }

\* app.post("/api/ask") from the arrival of the request to its first await:
\* validation, cache lookup, credential check, first attempt sent.
Ask(id, m) ==
    /\ pc[id] = "idle"
    /\ \A j \in Ids : j < id => pc[j] # "idle"
    /\ now \in Arrivals
    /\ message' = [message EXCEPT ![id] = m]
    /\ startedAt' = [startedAt EXCEPT ![id] = now]
    /\ IF invalidMessage(m)
       THEN /\ Respond(id, BadRequest(now))
            /\ UNCHANGED <<attempt, timer, delay, attemptAt, calls>>
       ELSE IF cacheHit(normalizeKey(m), now)
       THEN /\ Respond(id, Ok(aiCache[normalizeKey(m)].reply, now))
            /\ UNCHANGED <<attempt, timer, delay, attemptAt, calls>>
       ELSE IF falsy(apiKey)
       THEN /\ Respond(id, Misconfigured(now))
            /\ UNCHANGED <<attempt, timer, delay, attemptAt, calls>>
       ELSE /\ StartAttempt(id, 0)
            /\ UNCHANGED res
    /\ UNCHANGED <<now, apiKey, returned, aiCache, resp, lastErr, kinds, slept, outage>>

\* (mutant) a failure drops the entry of the key
FailedEvicting(id, err) ==
    /\ lastErr' = [lastErr EXCEPT ![id] = err]
    /\ kinds' = [kinds EXCEPT ![id] = @ \cup {kindOf(err)}]
    /\ resp' = [resp EXCEPT ![id] = NoResp]
    /\ attemptAt' = [attemptAt EXCEPT ![id] = 0]
    /\ IF isLast(attempt[id])
       THEN /\ Respond(id, BadGateway(err, now))
            /\ timer' = [timer EXCEPT ![id] = 0]
            /\ UNCHANGED <<delay, slept>>
       ELSE \E jitter \in Jitters :
            /\ pc' = [pc EXCEPT ![id] = "sleep"]
            /\ delay' = [delay EXCEPT ![id] = backoffDelay(attempt[id], jitter)]
            /\ timer' = [timer EXCEPT ![id] = now + backoffDelay(attempt[id], jitter)]
            /\ slept' = [slept EXCEPT ![id] = @ + backoffDelay(attempt[id], jitter)]
            /\ UNCHANGED res
    /\ aiCache' = [k \in DOMAIN aiCache \ {normalizeKey(message[id])} |-> aiCache[k]]
    /\ UNCHANGED <<now, apiKey, returned, message, attempt, calls, startedAt>>

\* The catch block of cohereChatRequest, entered with err: the last attempt
\* rethrows, into the handler's catch and its 502; any other attempt computes
\* the backoff delay and sleeps.
Failed(id, err) ==
    /\ lastErr' = [lastErr EXCEPT ![id] = err]
    /\ kinds' = [kinds EXCEPT ![id] = @ \cup {kindOf(err)}]
    /\ resp' = [resp EXCEPT ![id] = NoResp]
    /\ attemptAt' = [attemptAt EXCEPT ![id] = 0]
    /\ IF isLast(attempt[id])
       THEN /\ Respond(id, BadGateway(err, now))
            /\ timer' = [timer EXCEPT ![id] = 0]
            /\ UNCHANGED <<delay, slept>>
       ELSE \E jitter \in Jitters :
            /\ pc' = [pc EXCEPT ![id] = "sleep"]
            /\ delay' = [delay EXCEPT ![id] = backoffDelay(attempt[id], jitter)]
            /\ timer' = [timer EXCEPT ![id] = now + backoffDelay(attempt[id], jitter)]
            /\ slept' = [slept EXCEPT ![id] = @ + backoffDelay(attempt[id], jitter)]
            /\ UNCHANGED res
    /\ UNCHANGED <<now, apiKey, returned, aiCache, message, attempt, calls, startedAt>>

\* The upstream's faults of one run all hit the same request: a fault (a
\* response the wrapper throws for, a connection error, a body that cannot be
\* read, an answer that takes time) hits request id only when none has hit
\* another request.  The other requests are answered at once and well.
Hits(id, fault) ==
    IF fault THEN outage \in {0, id} /\ outage' = id ELSE UNCHANGED outage

\* fetch resolves with the response's status and headers; clearTimeout(timer);
\* the wrapper goes on to await the body (resp.text() or resp.json()).
FetchResolved(id, r) ==
    /\ pc[id] = "fetch"
    /\ now < timer[id]
    /\ Hits(id, thrownFor(r, TRUE) # NoError)
    /\ pc' = [pc EXCEPT ![id] = "body"]
    /\ resp' = [resp EXCEPT ![id] = r]
    /\ timer' = [timer EXCEPT ![id] = 0]
    /\ UNCHANGED << now, apiKey, returned, aiCache, message, attempt, delay, res, calls,
                    lastErr, kinds, slept, startedAt, attemptAt >>

\* fetch rejects: the connection failed.
FetchRejected(id) ==
    /\ pc[id] = "fetch"
    /\ now < timer[id]
    /\ Hits(id, TRUE)
    /\ Failed(id, NetworkError)

\* The abort timer fires while fetch is pending: controller.abort() rejects it.
Abort(id) ==
    /\ pc[id] = "fetch"
    /\ now >= timer[id]
    /\ Failed(id, AbortError)
    /\ UNCHANGED outage

\* The body has been consumed.  The wrapper throws for a 5xx, a 4xx, a
\* content-type that is not JSON, or a body resp.json() rejects; otherwise it
\* returns the JSON and the handler extracts the reply, caches it and answers.
BodyConsumed(id, parsed, data) ==
    /\ pc[id] = "body"
    /\ Hits(id, thrownFor(resp[id], parsed) # NoError)
    /\ IF thrownFor(resp[id], parsed) # NoError
       THEN Failed(id, thrownFor(resp[id], parsed))
       ELSE /\ returned' = [returned EXCEPT ![id] = data]
            /\ aiCache' = cacheSet(normalizeKey(message[id]), extractReply(data), now)
            /\ Respond(id, Ok(extractReply(data), now))
            /\ resp' = [resp EXCEPT ![id] = NoResp]
            /\ attemptAt' = [attemptAt EXCEPT ![id] = 0]
            /\ UNCHANGED << now, apiKey, message, attempt, timer, delay, calls,
                            lastErr, kinds, slept, startedAt >>

\* (mutant) the sleep is not awaited: the next attempt starts at once
WakeAtOnce(id) ==
    /\ pc[id] = "sleep"
    /\ StartAttempt(id, attempt[id] + 1)
    /\ UNCHANGED << now, apiKey, returned, aiCache, message, resp, res, lastErr, kinds,
                    slept, startedAt, outage >>

\* (mutant) the sleep's timer is missed: the promise is never resolved
WakeLate(id) ==
    /\ pc[id] = "sleep"
    /\ now > timer[id]
    /\ StartAttempt(id, attempt[id] + 1)
    /\ UNCHANGED << now, apiKey, returned, aiCache, message, resp, res, lastErr, kinds,
                    slept, startedAt, outage >>

\* sleep(delay) resolves: attempt++ and the next iteration's fetch.
Wake(id) ==
    /\ pc[id] = "sleep"
    /\ now >= timer[id]
    /\ StartAttempt(id, attempt[id] + 1)
    /\ UNCHANGED << now, apiKey, returned, aiCache, message, resp, res, lastErr, kinds,
                    slept, startedAt, outage >>

\* Time passes, to the next instant at which the program can tell the
\* difference: an armed timer is due, or a cache entry is in its last
\* millisecond or expires.  An armed timer fires when it is due: the clock
\* does not pass it.  A pending fetch is settled by its response or a
\* connection error before its abort timer is due, by the timer once it is.
\* Time that passes while a request awaits the upstream is a fault that hits it.
Armed == { timer[id] : id \in { i \in Ids : pc[i] \in {"fetch", "sleep"} } }

Awaiting == { id \in Ids : pc[id] \in {"fetch", "body"} }

Instants ==
    Armed \cup { aiCache[k].expires : k \in DOMAIN aiCache }
          \cup { aiCache[k].expires - 1 : k \in DOMAIN aiCache }

Tick ==
    /\ \E t \in Instants :
        /\ t > now
        /\ \A d \in Armed : t <= d
        /\ now' = t
    /\ IF Awaiting = {}
       THEN UNCHANGED outage
       ELSE \E id \in Awaiting : Awaiting = {id} /\ Hits(id, TRUE)
    /\ UNCHANGED << apiKey, returned, aiCache, pc, message, attempt, timer, resp, delay, res,
                    calls, lastErr, kinds, slept, startedAt, attemptAt >>

\* The steps of one request.
Step(id) ==
    \/ \E m \in Messages : Ask(id, m)
    \/ \E r \in Responses : FetchResolved(id, r)
    \/ FetchRejected(id)
    \/ Abort(id)
    \/ \E parsed \in BOOLEAN, data \in Bodies : BodyConsumed(id, parsed, data)
    \/ Wake(id)

Next == (\E id \in Ids : Step(id)) \/ Tick

\* The process serving up to MaxRequests requests, which may overlap, with an
\* upstream whose faults hit one of them.
Spec == Init /\ [][Next]_vars

\* The process serving one request, with an upstream that may fail in every way
\* at every attempt.
NextSolo == Step(1) \/ Tick

SpecSolo == Init /\ [][NextSolo]_vars

\* The same, with the scheduling the event loop and the upstream give: time
\* passes; a timer that is due fires (the abort of a pending fetch, the end of
\* a sleep); a pending fetch is settled, by the upstream or by the abort; a
\* body being consumed comes to its end.
Settled(id) ==
    \/ \E r \in Responses : FetchResolved(id, r)
    \/ FetchRejected(id)
    \/ Abort(id)

Consumed(id) == \E parsed \in BOOLEAN, data \in Bodies : BodyConsumed(id, parsed, data)

SpecSoloFair ==
    /\ SpecSolo
    /\ WF_vars(Tick)
    /\ WF_vars(Settled(1))
    /\ WF_vars(Consumed(1))
    /\ WF_vars(Wake(1))

\* The process serving up to MaxRequests requests, which may overlap, with an
\* upstream that answers every call at once and well.
GoodResponses == { r \in Responses : thrownFor(r, TRUE) = NoError }

NextHealthy ==
    \/ \E id \in Ids, m \in Messages : Ask(id, m)
    \/ \E id \in Ids, r \in GoodResponses : FetchResolved(id, r)
    \/ \E id \in Ids, data \in Bodies : BodyConsumed(id, TRUE, data)
    \/ Awaiting = {} /\ Tick

SpecHealthy == Init /\ [][NextHealthy]_vars

\* The process serving up to MaxRequests requests, one after the other, with an
\* upstream that answers every call at once with a JSON body of any shape.
NextExtract ==
    \/ \E id \in Ids, m \in Messages : Awaiting = {} /\ Ask(id, m)
    \/ \E id \in Ids, r \in GoodResponses : FetchResolved(id, r)
    \/ \E id \in Ids, data \in Bodies \cup MoreBodies : BodyConsumed(id, TRUE, data)
    \/ Awaiting = {} /\ Tick

SpecExtract == Init /\ [][NextExtract]_vars

\* ------------------------------------------------------------------ claims

\* C1: when the upstream answers an attempt with a 4xx status the request
\* fails at once: it is answered 502 without a backoff sleep and without a
\* further attempt.  Stated of the request's latest failed attempt: once it
\* has ended with the 4xx error, the request has been answered 502 (it is
\* neither asleep nor trying again).
C1_ClientErrorFailsAtOnce ==
    \A id \in Ids :
        lastErr[id].name = "Cohere" =>
            pc[id] = "done" /\ res[id].code = 502

\* C2: when the upstream answers an attempt with a 2xx status and a
\* content-type that is not JSON, the request fails at once as malformed: no
\* backoff sleep and no further attempt follow: once the latest failed attempt
\* has ended with the non-JSON error, the request has been answered 502.
C2_NonJsonFailsAtOnce ==
    \A id \in Ids :
        lastErr[id].name = "Non-JSON response" =>
            pc[id] = "done" /\ res[id].code = 502

\* A message that passes validation, said without the handler's words.
ValidMessage(m) == m.type = "string" /\ Len(m.chars) > 0

\* Request id arrives in this step.
Arrives(id) == pc[id] = "idle" /\ pc'[id] # "idle"

\* C3: a request with a valid message whose normalized key has a cache entry
\* with expires > now when the handler looks it up is answered 200 with
\* exactly the cached reply, and no upstream call is issued for it; the cache
\* is left as it was.
C3_LiveEntryIsServed ==
    [][ \A id \in Ids :
          LET k == normalizeKey(message'[id]) IN
          ( /\ Arrives(id)
            /\ ValidMessage(message'[id])
            /\ k \in DOMAIN aiCache
            /\ aiCache[k].expires > now )
          => ( /\ pc'[id] = "done"
               /\ res'[id].code = 200
               /\ res'[id].reply = aiCache[k].reply
               /\ calls'[id] = 0
               /\ aiCache' = aiCache ) ]_vars

\* A request was served from the cache in the last millisecond of the entry.
C3_Witness ==
    \E id \in Ids :
        LET k == normalizeKey(message[id]) IN
        /\ pc[id] = "done" /\ res[id].code = 200 /\ calls[id] = 0
        /\ k \in DOMAIN aiCache
        /\ res[id].reply = aiCache[k].reply
        /\ res[id].at = aiCache[k].expires - 1

\* C4: a request whose normalized key has a cache entry with expires <= now
\* when the handler looks it up (expires = now included) is not answered from
\* the cache: it goes on as on a miss, to the first upstream attempt.
C4_ExpiredEntryIsAMiss ==
    [][ \A id \in Ids :
          LET k == normalizeKey(message'[id]) IN
          ( /\ Arrives(id)
            /\ ValidMessage(message'[id])
            /\ k \in DOMAIN aiCache
            /\ aiCache[k].expires <= now )
          => ( /\ pc'[id] = "fetch"
               /\ res'[id] = NoRes
               /\ calls'[id] = 1
               /\ attempt'[id] = 0
               /\ aiCache' = aiCache ) ]_vars

\* A request that arrived at the very instant its key's entry expired is
\* awaiting its first upstream attempt.
C4_Witness ==
    \E id \in Ids :
        LET k == normalizeKey(message[id]) IN
        /\ pc[id] = "fetch" /\ calls[id] = 1
        /\ k \in DOMAIN aiCache
        /\ aiCache[k].expires = startedAt[id]
        /\ now = startedAt[id]

\* Two strings differ only in leading or trailing whitespace and in letter
\* case: between their first and last characters that are not whitespace they
\* have the same length and, position by position, the same letter.
SameLetter(c, d) ==
    c = d \/ \E i \in 1..Len(UpperCase) : {c, d} = {UpperCase[i], LowerCase[i]}

Inner(cs) ==
    LET solid == { i \in 1..Len(cs) : cs[i] \notin Whitespace } IN
    IF solid = {} THEN << >>
    ELSE SubSeq(cs, CHOOSE i \in solid : \A j \in solid : i <= j,
                    CHOOSE i \in solid : \A j \in solid : j <= i)

SameModuloSpaceAndCase(m1, m2) ==
    /\ Len(Inner(m1.chars)) = Len(Inner(m2.chars))
    /\ \A i \in 1..Len(Inner(m1.chars)) :
          SameLetter(Inner(m1.chars)[i], Inner(m2.chars)[i])

\* The cache holds, live, the entry request id wrote when it resolved upstream.
HoldsEntryOf(id) ==
    LET k == normalizeKey(message[id]) IN
    /\ pc[id] = "done" /\ res[id].code = 200 /\ calls[id] > 0
    /\ k \in DOMAIN aiCache
    /\ aiCache[k] = [reply |-> res[id].reply, expires |-> res[id].at + ttlMs]
    /\ aiCache[k].expires > now

\* C5: two messages that differ only in leading or trailing whitespace and in
\* letter case have the same cache key; and when a request with the first has
\* resolved upstream and its entry is still live, a request arriving with the
\* second is answered from the cache, without an upstream call, with the first
\* request's reply.
C5_SameKeyModuloSpaceAndCase ==
    [][ \A id1, id2 \in Ids :
          ( /\ Arrives(id2)
            /\ HoldsEntryOf(id1)
            /\ ValidMessage(message'[id2])
            /\ SameModuloSpaceAndCase(message[id1], message'[id2]) )
          => ( /\ normalizeKey(message[id1]) = normalizeKey(message'[id2])
               /\ pc'[id2] = "done"
               /\ res'[id2].code = 200
               /\ res'[id2].reply = res[id1].reply
               /\ calls'[id2] = 0 ) ]_vars

\* "  Hi " was resolved upstream and "hi" was then answered from the cache.
C5_Witness ==
    \E id1, id2 \in Ids :
        /\ message[id1] = Str(<<" ", "H", "i", " ">>)
        /\ message[id2] = Str(<<"h", "i">>)
        /\ pc[id1] = "done" /\ res[id1].code = 200 /\ calls[id1] = 1
        /\ pc[id2] = "done" /\ res[id2].code = 200 /\ calls[id2] = 0
        /\ res[id2].reply = res[id1].reply
        /\ startedAt[id2] > res[id1].at

\* No credential is configured: the variable is unset or empty.
NoCredential == apiKey.type = "undefined" \/ Len(apiKey.chars) = 0

\* C6: with no provider credential configured, every request with a valid
\* message is answered 500 with an error field, and no upstream call is made
\* for any request.
C6_NoCredentialIs500 ==
    NoCredential =>
        \A id \in Ids :
            /\ calls[id] = 0
            /\ pc[id] \notin {"fetch", "body", "sleep"}
            /\ (pc[id] # "idle" /\ ValidMessage(message[id]))
                  => pc[id] = "done" /\ res[id].code = 500 /\ res[id].error # ""

\* With the credential set to the empty string, "hi" was answered 500.
C6_Witness ==
    \E id \in Ids :
        /\ apiKey = Str(<< >>)
        /\ message[id] = Str(<<"h", "i">>)
        /\ pc[id] = "done" /\ res[id].code = 500

\* C7: a request whose message is missing, not a string or the empty string
\* is answered 400 in the step it arrives in: nothing cached is served, no
\* upstream call is made, the cache is unchanged.
C7_InvalidMessageIs400 ==
    [][ \A id \in Ids :
          (Arrives(id) /\ ~ValidMessage(message'[id]))
          => ( /\ pc'[id] = "done"
               /\ res'[id].code = 400
               /\ res'[id].reply = NoValue
               /\ res'[id].error # ""
               /\ calls'[id] = 0
               /\ aiCache' = aiCache ) ]_vars

\* The empty string was answered 400 while the cache held a live entry under
\* the empty key (that of the valid message " ").
C7_Witness ==
    \E id \in Ids :
        /\ message[id] = Str(<< >>)
        /\ pc[id] = "done" /\ res[id].code = 400
        /\ << >> \in DOMAIN aiCache
        /\ aiCache[<< >>].expires > res[id].at
        /\ aiCache[<< >>].expires - ttlMs <= res[id].at

\* The delays the wrapper may sleep after failed attempt k.
DelaysAfter(k) == { baseDelay * Pow2(k) + j : j \in 0..(jitterRange - 1) }

\* Request id saw attempts 0 and 1 end in a 5xx and attempt 2 succeed: it was
\* answered while in its third iteration, and every failure before was a 5xx.
TwoServerErrorsThenSuccess(id) ==
    pc[id] = "done" /\ attempt[id] = 2 /\ kinds[id] = {"5xx"} /\ lastErr[id] = ServerError(500, 1200)

\* C8: when the upstream answers attempts 0 and 1 with a 5xx and attempt 2
\* with 2xx and JSON, the request is answered 200 after exactly three upstream
\* calls and exactly two backoff sleeps (one after each failed attempt), and
\* the time from its arrival to its answer is at least the sum of the two
\* delays.
C8_RetriedUntilSuccess ==
    \A id \in Ids :
        TwoServerErrorsThenSuccess(id) =>
            /\ res[id].code = 200
            /\ calls[id] = 3
            /\ \E d0 \in DelaysAfter(0), d1 \in DelaysAfter(1) : slept[id] = d0 + d1
            /\ res[id].at - startedAt[id] >= slept[id]

\* Such a request, whose sleeps had the largest jitter.
C8_Witness ==
    \E id \in Ids :
        /\ TwoServerErrorsThenSuccess(id)
        /\ res[id].code = 200
        /\ slept[id] = 2 * (jitterRange - 1) + 3 * baseDelay

\* C9: no request issues more than maxRetries + 1 = 4 upstream calls; once
\* the fourth attempt has ended the request is answered; and a request all of
\* whose attempts ended in a retryable failure (5xx, timeout, connection
\* error) is answered 502 after exactly four calls, with the error of the
\* last attempt.
C9_ExhaustedAfterFourAttempts ==
    \A id \in Ids :
        /\ calls[id] <= maxRetries + 1
        /\ (calls[id] = maxRetries + 1 /\ pc[id] \notin {"fetch", "body"})
              => pc[id] = "done"
        /\ (pc[id] = "done" /\ res[id].code = 502 /\ kinds[id] \subseteq {"5xx", "transient"})
              => /\ calls[id] = maxRetries + 1
                 /\ attempt[id] = maxRetries
                 /\ res[id].detail = lastErr[id]

\* A request answered 502 whose attempts ended in 5xx answers and then, the
\* last one, in a timeout: the detail is the timeout.
C9_Witness ==
    \E id \in Ids :
        /\ pc[id] = "done" /\ res[id].code = 502
        /\ kinds[id] = {"5xx", "transient"}
        /\ calls[id] = 4
        /\ res[id].detail = AbortError

\* C10: no upstream attempt stays in flight (response awaited or body being
\* consumed) longer than timeoutMs after its start: the abort timer ends it.
C10_AttemptBoundedByTimeout ==
    \A id \in Ids :
        pc[id] \in {"fetch", "body"} => now - attemptAt[id] <= timeoutMs

\* C11: every failure of the upstream resolution is answered 502 with an error
\* text and a detail of at most 300 characters; a 400 comes only from an
\* invalid message and a 500 only from a missing credential, neither after an
\* upstream call; a 502 comes only after a failed upstream call; and every
\* response that is not a 200 carries an error text.
C11_FailuresAre502 ==
    \A id \in Ids :
        pc[id] = "done" =>
            /\ res[id].code \in {200, 400, 500, 502}
            /\ (calls[id] > 0 /\ res[id].code # 200)
                  => /\ res[id].code = 502
                     /\ lastErr[id] # NoError
                     /\ res[id].detail.name = lastErr[id].name
                     /\ res[id].detail.len <= 300
            /\ res[id].code = 502 => calls[id] > 0
            /\ res[id].code = 400 => (~ValidMessage(message[id]) /\ calls[id] = 0)
            /\ res[id].code = 500
                  => (ValidMessage(message[id]) /\ NoCredential /\ calls[id] = 0)
            /\ res[id].code # 200 => res[id].error # ""
            /\ res[id].code = 200 => res[id].error = ""

\* A 4xx at the last attempt: its message of 1212 characters is cut to 300.
C11_Witness ==
    \E id \in Ids :
        /\ pc[id] = "done" /\ res[id].code = 502
        /\ lastErr[id].name = "Cohere" /\ lastErr[id].len > 300
        /\ res[id].detail.len = 300

\* The paths of the reply, in their order of priority.
Paths ==
    << "messageContent", "output0Content", "output0Text", "generations0Text",
       "choices0MessageContent", "resultContent", "text" >>

\* The value at the first path that holds a non-empty value; when there is
\* none, the serialization of the whole response cut to 1000 characters.
FirstNonEmptyOrSerialized(data) ==
    LET found == { i \in 1..Len(Paths) : data.fields[Paths[i]].len > 0 } IN
    IF found # {}
    THEN data.fields[Paths[CHOOSE i \in found : \A j \in found : i <= j]]
    ELSE [text |-> data.ser.text,
          len |-> IF data.ser.len > 1000 THEN 1000 ELSE data.ser.len]

\* C12: a request whose upstream resolution succeeded is answered 200 with,
\* as reply, the value at the first of the seven paths (in their fixed order)
\* that holds a non-empty value, and when no path does, the serialization of
\* the whole response cut to at most 1000 characters.
C12_ReplyIsFirstPathOrSerialization ==
    \A id \in Ids :
        returned[id] # NoJson =>
            /\ pc[id] = "done"
            /\ res[id].code = 200
            /\ res[id].reply = FirstNonEmptyOrSerialized(returned[id])

\* Request id has an upstream attempt in flight.
InFlight(id) == pc[id] \in {"fetch", "body"}

\* The attempt in flight of request id ends in failure in this step.
AttemptFails(id) ==
    /\ InFlight(id)
    /\ ~InFlight(id)'
    /\ ~(pc'[id] = "done" /\ res'[id].code = 200)

\* C13: when attempt k < 3 of a request fails, the request goes to sleep for
\* a delay between 300 * 2^k and 300 * 2^k + 150 ms (300..450, 600..750,
\* 1200..1350), and attempt k + 1 starts only when that delay has elapsed;
\* when attempt 3 fails the request does not sleep: it is answered in the
\* same step.
C13_BackoffBeforeNextAttempt ==
    [][ \A id \in Ids :
          /\ (AttemptFails(id) /\ attempt[id] < 3)
                => /\ pc'[id] = "sleep"
                   /\ attempt'[id] = attempt[id]
                   /\ delay'[id] >= 300 * (2 ^ attempt[id])
                   /\ delay'[id] <= 300 * (2 ^ attempt[id]) + 150
                   /\ timer'[id] = now + delay'[id]
                   /\ slept'[id] = slept[id] + delay'[id]
          /\ (AttemptFails(id) /\ attempt[id] = 3)
                => /\ pc'[id] = "done"
                   /\ res'[id].at = now
                   /\ slept'[id] = slept[id]
          /\ (pc[id] = "sleep" /\ pc'[id] # "sleep")
                => /\ pc'[id] = "fetch"
                   /\ attempt'[id] = attempt[id] + 1
                   /\ now >= timer[id]
          /\ pc'[id] = "sleep" => (pc[id] = "sleep" \/ AttemptFails(id)) ]_vars

\* A request in its last attempt after three sleeps of the largest jitter:
\* 449 + 749 + 1349 ms.
C13_Witness ==
    \E id \in Ids :
        /\ pc[id] = "fetch" /\ attempt[id] = 3
        /\ slept[id] = 2547
        /\ now - startedAt[id] >= 2547

\* The upstream resolution of request id succeeds in this step, and the
\* request is answered 200.
Resolves(id) == InFlight(id) /\ pc'[id] = "done" /\ res'[id].code = 200

\* The key of a message: its characters without the whitespace around them,
\* each capital replaced by its small letter.
KeyOf(m) ==
    [ i \in 1..Len(Inner(m.chars)) |->
        IF Inner(m.chars)[i] = "H" THEN "h"
        ELSE IF Inner(m.chars)[i] = "I" THEN "i"
        ELSE Inner(m.chars)[i] ]

\* C14: in the step in which a request's upstream resolution succeeds and
\* the 200 is sent, the cache holds under the request's normalized key an
\* entry whose reply is the reply sent and whose expires is the time of the
\* write plus 30 000 ms; this holds whether the key had no entry or an
\* expired one.
C14_SuccessPopulatesCache ==
    [][ \A id \in Ids :
          Resolves(id) =>
              /\ KeyOf(message[id]) \in DOMAIN aiCache'
              /\ aiCache'[KeyOf(message[id])].reply = res'[id].reply
              /\ aiCache'[KeyOf(message[id])].expires = now + 30000
              /\ res'[id].at = now ]_vars

\* A request that found an expired entry has replaced it by a fresh one with
\* another reply.
C14_Witness ==
    \E id \in Ids, j \in Ids :
        /\ pc[id] = "done" /\ res[id].code = 200 /\ calls[id] = 1
        /\ pc[j] = "done" /\ res[j].code = 200 /\ calls[j] = 1
        /\ KeyOf(message[id]) = KeyOf(message[j])
        /\ startedAt[id] = res[j].at + 30000
        /\ res[id].reply # res[j].reply
        /\ aiCache[KeyOf(message[id])] =
              [reply |-> res[id].reply, expires |-> res[id].at + 30000]

\* C15: the attempts of one request are strictly sequential.  A step sends at
\* most one upstream call for a request, and only when the request has none
\* in flight; the call of attempt 0 is sent as the request arrives, and the
\* call of attempt k + 1 only from the backoff sleep that followed the failure
\* of attempt k, once the sleep's delay has elapsed.  While a call is in
\* flight it is the only one: the calls sent so far are those of attempts
\* 0..k, and those of 0..k-1 have ended.
C15_AttemptsAreSequential ==
    [][ \A id \in Ids :
          /\ calls'[id] \in {calls[id], calls[id] + 1}
          /\ calls'[id] = calls[id] + 1
                => /\ ~InFlight(id)
                   /\ pc'[id] = "fetch"
                   /\ \/ /\ pc[id] = "idle"
                         /\ calls[id] = 0
                         /\ attempt'[id] = 0
                      \/ /\ pc[id] = "sleep"
                         /\ lastErr[id] # NoError
                         /\ now >= timer[id]
                         /\ timer[id] - delay[id] >= startedAt[id]
                         /\ attempt'[id] = attempt[id] + 1
          /\ InFlight(id) => calls[id] = attempt[id] + 1
          /\ (InFlight(id) /\ InFlight(id)') => calls'[id] = calls[id] ]_vars

\* Attempt 1 in flight after attempt 0 was aborted by its timeout and the
\* backoff sleep elapsed.
C15_Witness ==
    \E id \in Ids :
        /\ pc[id] = "fetch" /\ attempt[id] = 1 /\ calls[id] = 2
        /\ lastErr[id] = AbortError
        /\ attemptAt[id] = startedAt[id] + timeoutMs + slept[id]

\* Request id has been answered 200 after resolving upstream.
Resolved(id) == pc[id] = "done" /\ res[id].code = 200 /\ calls[id] > 0

\* The entry the resolution of request id wrote.
EntryOf(id) == [reply |-> res[id].reply, expires |-> res[id].at + 30000]

\* Request id is suspended at an await of its upstream resolution.
Suspended(id) == pc[id] \in {"fetch", "body", "sleep"}

\* C16: two requests with the same key that both miss the cache resolve
\* upstream each on its own, and the later write replaces the earlier whole.
\* (a) A request that arrives while another with the same key is suspended in
\* its resolution, and finds no live entry, sends its own upstream call and
\* leaves the other as it was.  (b) A step moves one request only, and a
\* request that is neither idle nor answered is suspended at the upstream call
\* or the backoff sleep.  (c) When a request resolves after another with the
\* same key, whose resolution overlapped its own, has resolved, the entry of
\* the key becomes exactly the {reply, expires} of the request that resolves
\* now.  (d) Every entry of the cache is, whole, the entry one resolved
\* request wrote.
C16_LastWriterWins ==
    [][ /\ \A id \in Ids, j \in Ids :
            id # j =>
              /\ ( /\ Arrives(id) /\ ValidMessage(message'[id])
                    /\ Suspended(j)
                    /\ KeyOf(message[j]) = KeyOf(message'[id])
                    /\ ~( /\ KeyOf(message[j]) \in DOMAIN aiCache
                          /\ aiCache[KeyOf(message[j])].expires > now ) )
                  => ( /\ calls'[id] = 1 /\ pc'[id] = "fetch"
                       /\ pc'[j] = pc[j] /\ calls'[j] = calls[j]
                       /\ aiCache' = aiCache )
              /\ pc'[id] # pc[id] => pc'[j] = pc[j]
              /\ ( /\ Resolves(id) /\ Resolved(j)
                    /\ KeyOf(message[j]) = KeyOf(message[id])
                    /\ startedAt[id] <= res[j].at )
                  => ( /\ calls[id] >= 1 /\ calls[j] >= 1
                       /\ aiCache'[KeyOf(message[id])] =
                             [reply |-> res'[id].reply, expires |-> now + 30000]
                       /\ res'[j] = res[j] )
        /\ \A id \in Ids :
              pc[id] \in {"idle", "done"} \/ Suspended(id)
        /\ \A k \in DOMAIN aiCache' :
              \E id \in Ids :
                  Resolved(id)' /\ KeyOf(message'[id]) = k /\ aiCache'[k] = EntryOf(id)'
      ]_vars

\* Two requests whose messages differ but share the key both resolved
\* upstream while the other was in flight, with different replies; the cache
\* holds the entry of one of them, whole.
C16_Witness ==
    \E id \in Ids, j \in Ids :
        /\ id # j
        /\ Resolved(id) /\ Resolved(j)
        /\ message[id] # message[j]
        /\ KeyOf(message[id]) = KeyOf(message[j])
        /\ startedAt[id] <= res[j].at /\ startedAt[j] <= res[id].at
        /\ res[id].reply # res[j].reply
        /\ aiCache[KeyOf(message[id])] = EntryOf(id)

\* C17, as stated: an entry is read-only from its creation to its expiry: in
\* no step does the reply or the expires of an entry with expires > now
\* change.
C17_EntryReadOnlyWhileLive ==
    [][ \A k \in DOMAIN aiCache :
          aiCache[k].expires > now
            => (k \in DOMAIN aiCache' /\ aiCache'[k] = aiCache[k]) ]_vars

\* C17, amended: an entry with expires > now stays in the cache, and changes
\* in one kind of step only: a request with the same key that arrived no
\* later than the entry was written (it missed the cache before the write)
\* resolves upstream, and the entry becomes that request's own write.  No
\* request that arrives after the write changes the entry while it is live.
C17_LiveEntryChangesOnlyByRace ==
    [][ \A k \in DOMAIN aiCache :
          aiCache[k].expires > now
            => /\ k \in DOMAIN aiCache'
               /\ \/ aiCache'[k] = aiCache[k]
                  \/ \E id \in Ids :
                        /\ Resolves(id)
                        /\ KeyOf(message[id]) = k
                        /\ startedAt[id] <= aiCache[k].expires - 30000
                        /\ aiCache'[k] =
                              [reply |-> res'[id].reply, expires |-> now + 30000] ]_vars

\* The live entry one request wrote has been replaced by the write of a
\* request that had arrived before it was written.
C17_Witness ==
    \E id \in Ids, j \in Ids :
        /\ Resolved(id) /\ Resolved(j)
        /\ KeyOf(message[id]) = KeyOf(message[j])
        /\ startedAt[id] <= res[j].at
        /\ res[j].at <= res[id].at /\ res[id].at < res[j].at + 30000
        /\ EntryOf(id) # EntryOf(j)
        /\ aiCache[KeyOf(message[id])] = EntryOf(id)
        /\ now < res[j].at + 30000

\* Request id has been answered 200 from the cache, without an upstream call.
Served(id) == pc[id] = "done" /\ res[id].code = 200 /\ calls[id] = 0

\* C18: every reply served from the cache is the reply of a successful
\* upstream resolution for the same key, written to the cache less than
\* 30 000 ms before the reply is served.
C18_ServedReplyIsFresh ==
    \A id \in Ids :
        Served(id) =>
            \E j \in Ids :
                /\ Resolved(j)
                /\ KeyOf(message[j]) = KeyOf(message[id])
                /\ res[j].reply = res[id].reply
                /\ res[j].at <= res[id].at
                /\ res[id].at - res[j].at < 30000

\* A reply served 29 999 ms after it was written, to a message that differs
\* from the one that was resolved.
C18_Witness ==
    \E id \in Ids, j \in Ids :
        /\ Served(id) /\ Resolved(j)
        /\ message[id] # message[j]
        /\ res[j].reply = res[id].reply
        /\ res[id].at - res[j].at = 29999

\* Request id is answered in this step.
Answered(id) == pc[id] # "done" /\ pc'[id] = "done"

\* C19: the cache changes only in a step in which a request's upstream
\* resolution succeeds, and then only at that request's key.  A step that
\* answers a request 400, 500 or 502, or 200 from the cache, leaves every
\* entry as it was: a hit does not extend expires, and the failed
\* re-resolution of an expired key neither removes nor refreshes the entry.
C19_OnlySuccessWritesCache ==
    [][ /\ aiCache' # aiCache
            => \E id \in Ids :
                  /\ Resolves(id) /\ calls[id] > 0
                  /\ DOMAIN aiCache' = DOMAIN aiCache \cup {KeyOf(message[id])}
                  /\ \A k \in DOMAIN aiCache :
                        k # KeyOf(message[id]) => aiCache'[k] = aiCache[k]
        /\ \A id \in Ids :
              ( /\ Answered(id)
                /\ \/ res'[id].code \in {400, 500, 502}
                   \/ calls'[id] = 0 )
              => aiCache' = aiCache
        /\ \A id \in Ids : AttemptFails(id) => aiCache' = aiCache ]_vars

\* A request that found the entry of its key expired has failed to resolve
\* upstream: it is answered 502, and the expired entry is still the one the
\* earlier request wrote.
C19_Witness ==
    \E id \in Ids, j \in Ids :
        /\ Resolved(j)
        /\ pc[id] = "done" /\ res[id].code = 502
        /\ KeyOf(message[id]) = KeyOf(message[j])
        /\ startedAt[id] >= res[j].at + 30000
        /\ aiCache[KeyOf(message[id])] = EntryOf(j)

====
